---- MODULE Spec2Model ----
(***************************************************************************)
(* Model of iterative_telemetry: the identity store                        *)
(* (_find_or_create_user_id and its helpers) shared by several processes   *)
(* through two files and their file locks, and the event dispatcher        *)
(* (IterativeTelemetryLogger.send_event / is_enabled / send).              *)
(***************************************************************************)
EXTENDS Integers, Sequences, FiniteSets, TLC

\* ---------------------------------------------------------------- bounds
NumProcs == 2   \* processes that use the library at the same time
MaxGen == 2     \* uuid4 values _generate_id hands out in one behaviour

Procs == 1..NumProcs

\* ------------------------------------------------------------- constants
DO_NOT_TRACK_VALUE == "do-not-track"

\* Python values that are no identifier
None == "<None>"
Unbound == "<unbound>"
\* exceptions that leave a call
UnboundLocalError == "<UnboundLocalError>"
NotImplementedError == "<NotImplementedError>"
ValueError == "<ValueError>"
TypeError == "<TypeError>"
Exceptions == {UnboundLocalError, NotImplementedError, ValueError, TypeError}

\* lock holders: a process of Procs, nobody, or a process outside the model
\* (another tool, e.g. dvc, that shares the lock files)
NoOne == 0
ExtHolder == 0 - 1

\* the spellings of the opt-out marker and the other identifiers a user or
\* an older tool may have put into a file
SentinelSpellings == {"do-not-track", "DO-NOT-TRACK"}
ForeignIds == {"1234"}
UuidNames == <<"uuid-1", "uuid-2", "uuid-3", "uuid-4">>
Uuids == {UuidNames[i] : i \in DOMAIN UuidNames}

\* _generate_id: str(uuid.uuid4()); the n-th value generated is new
_generate_id(n) == UuidNames[n]

\* str.lower on the values of the model
lower(s) == IF s \in SentinelSpellings THEN "do-not-track" ELSE s

\* ------------------------------------------------------------ file model
\* A file is absent, holds text that is no JSON (also: the empty file right
\* after open(mode="w")), holds a JSON object without "user_id", holds JSON
\* that is no object (a list, a string, a number, null), or holds
\* {"user_id": uid}.
Absent == [kind |-> "absent", user_id |-> ""]
Malformed == [kind |-> "malformed", user_id |-> ""]
NoKey == [kind |-> "nokey", user_id |-> ""]
NotObject == [kind |-> "notobject", user_id |-> ""]
Record(uid) == [kind |-> "record", user_id |-> uid]

\* json.dump({"user_id": user_id}, fobj)
json_dump(uid) == Record(uid)

\* mutant: the read looks up a key the file never has
_read_user_id_wrong_key(file) == None

\* _read_user_id: FileNotFoundError, ValueError and KeyError all give None;
\* json.load(fobj)["user_id"] on a value that is no object raises TypeError,
\* which the except clause does not name
_read_user_id(file) ==
    IF file.kind = "record" THEN file.user_id
    ELSE IF file.kind = "notobject" THEN TypeError ELSE None

\* mutant: the opt-out marker is compared without .lower()
ReturnValueCaseSensitive(uid) ==
    IF uid = Unbound THEN UnboundLocalError
    ELSE IF uid # DO_NOT_TRACK_VALUE THEN uid ELSE None

\* the last line of _find_or_create_user_id
ReturnValue(uid) ==
    IF uid = Unbound THEN UnboundLocalError
    ELSE IF lower(uid) # lower(DO_NOT_TRACK_VALUE) THEN uid ELSE None

VARIABLES
    primary,      \* the file <config>/iterative/telemetry
    primaryDir,   \* whether its parent directory exists
    legacy,       \* the file <config>/iterative/dvc/user_id
    legacyDir,    \* whether its parent directory exists
    lock,         \* holder of telemetry.lock and of user_id.lock
    nextUuid,     \* how many uuid4 values were generated so far, plus one
    pc,           \* where each process is
    caller,       \* who called _find_or_create_user_id in each process
    user_id,      \* the local variable user_id of the running resolution
    cache,        \* lru_cache of _find_or_create_user_id, per process
    result,       \* what the resolution that is returning returns or raises
    how,          \* history: the path the returning resolution took
    call,         \* the send_event call in progress, with its arguments
    origin,       \* history: who wrote the primary file's content
    last          \* history, per process: what its latest resolution that
                  \* ran under the primary lock to the end returned, since
                  \* the primary file was last edited from outside

files == <<primary, primaryDir, legacy, legacyDir>>
procv == <<pc, caller, user_id, cache, result, how>>
hist == <<origin, last>>
vars == <<primary, primaryDir, legacy, legacyDir, lock, nextUuid, pc, caller,
          user_id, cache, result, how, call, origin, last>>

Miss == "<miss>"
NoResult == "<no result>"

\* contents a user or another tool can give a file
ForeignContents ==
    {Malformed, NoKey, NotObject}
        \cup {Record(v) : v \in ForeignIds \cup SentinelSpellings}

\* platform.system() values; os.name of each
Systems == {"Linux", "Darwin", "Windows", "FreeBSD", "Java"}
os_name(system) ==
    IF system = "Windows" THEN "nt"
    ELSE IF system = "Java" THEN "java" ELSE "posix"

\* the enabled argument of the logger: a bool, or a callable and what it
\* returns
EnabledSettings == {"True", "False", "callable_true", "callable_false"}

\* the arguments of send_event and of the logger that reach the payload
Interfaces == {"cli", "api"}
Actions == {"run"}
ToolNames == {"dvc"}
ToolVersions == {"2.0"}

\* _system_info(): the names the payload uses, and the version string that
\* sys.getwindowsversion, platform.mac_ver or distro.version gives
_system_info(system) ==
    IF system = "Windows"
    THEN [os_name |-> "windows", os_version |-> "19045.10.0-"]
    ELSE IF system = "Darwin"
    THEN [os_name |-> "mac", os_version |-> "13.1"]
    ELSE [os_name |-> "linux", os_version |-> "22.04"]

\* mutant: the identifier is left out of the runtime information
_runtime_info_anonymous(tool_name, tool_version, system, uid) ==
    [tool_name |-> tool_name, tool_version |-> tool_version,
     os_name |-> _system_info(system).os_name,
     os_version |-> _system_info(system).os_version,
     user_id |-> "", group_id |-> ""]

\* _runtime_info(), with the result of _find_or_create_user_id()
_runtime_info(tool_name, tool_version, system, uid) ==
    [tool_name |-> tool_name, tool_version |-> tool_version,
     os_name |-> _system_info(system).os_name,
     os_version |-> _system_info(system).os_version,
     user_id |-> uid, group_id |-> ""]

\* the dict of send_event (no error, no extra field) after
\* payload.update(self._runtime_info())
Payload(interface, action, info) ==
    [interface |-> interface, action |-> action, error |-> None,
     tool_name |-> info.tool_name, tool_version |-> info.tool_version,
     os_name |-> info.os_name, os_version |-> info.os_version,
     user_id |-> info.user_id, group_id |-> info.group_id]

NoBody ==
    [interface |-> "-", action |-> "-", error |-> "-", tool_name |-> "-",
     tool_version |-> "-", os_name |-> "-", os_version |-> "-",
     user_id |-> "-", group_id |-> "-"]

\* a send_event call: its inputs, where it is, how it ended (timeout: the
\* lock its resolution waited for in vain; posts: the calls of
\* requests.post before send_event was left; body: the json handed over)
NoCall ==
    [proc |-> NoOne, stage |-> "none", enabled |-> "-", env |-> "-",
     system |-> "-", use_thread |-> "-", use_daemon |-> "-",
     interface |-> "-", action |-> "-", tool_name |-> "-",
     tool_version |-> "-", timeout |-> "none",
     user_id |-> Unbound, outcome |-> "-", strategy |-> "none",
     post |-> "none", posts |-> 0, body |-> NoBody]

InitProcs ==
    /\ lock = [f \in {"primary", "legacy"} |-> NoOne]
    /\ nextUuid = 1
    /\ pc = [p \in Procs |-> "idle"]
    /\ caller = [p \in Procs |-> "none"]
    /\ user_id = [p \in Procs |-> Unbound]
    /\ cache = [p \in Procs |-> Miss]
    /\ result = [p \in Procs |-> NoResult]
    /\ how = [p \in Procs |-> "none"]
    /\ call = NoCall
    /\ origin = "outside"
    /\ last = [p \in Procs |-> NoResult]

\* any store a machine can be in when the first process starts
Init ==
    /\ primary \in {Absent} \cup ForeignContents
    /\ primaryDir \in BOOLEAN
    /\ primary # Absent => primaryDir
    /\ legacy \in {Absent} \cup ForeignContents
    /\ legacyDir \in BOOLEAN
    /\ legacy # Absent => legacyDir
    /\ InitProcs

\* a fresh store: no primary file, no legacy file
InitFresh ==
    /\ primary = Absent
    /\ primaryDir \in BOOLEAN
    /\ legacy = Absent
    /\ legacyDir \in BOOLEAN
    /\ InitProcs

\* ------------------------------------------------- _find_or_create_user_id
\* mutant: a lock that excludes nobody
CanAcquireAlways(f) == TRUE

\* FileLock(lockfile, timeout=5).acquire succeeds when nobody holds the lock
CanAcquire(f) == lock[f] = NoOne

\* mutant: FileLock without timeout, the wait never ends
TimesOutNever(f) == FALSE

\* FileLock.acquire raises Timeout when the lock stayed taken for 5 seconds
TimesOut(f) == lock[f] # NoOne

\* A caller outside the logger (the tests, an embedding tool) calls
\* find_or_create_user_id()
DirectCall(p) ==
    /\ pc[p] = "idle"
    /\ pc' = [pc EXCEPT ![p] = "call"]
    /\ caller' = [caller EXCEPT ![p] = "direct"]
    /\ UNCHANGED <<files, lock, nextUuid, user_id, cache, result, how, call,
                   hist>>

\* mutant: no lru_cache, every call runs the body
EnterUncached(p) ==
    /\ pc[p] = "call"
    /\ primaryDir' = TRUE
    /\ pc' = [pc EXCEPT ![p] = "acq_primary"]
    /\ UNCHANGED <<primary, legacy, legacyDir, lock, nextUuid, caller,
                   user_id, cache, result, how, call, hist>>

\* @lru_cache(None): a cached value is returned without running the body;
\* otherwise the body starts: mkdir(mode=0o755, parents=True, exist_ok=True)
Enter(p) ==
    /\ pc[p] = "call"
    /\ IF cache[p] # Miss
       THEN /\ result' = [result EXCEPT ![p] = cache[p]]
            /\ how' = [how EXCEPT ![p] = "cached"]
            /\ pc' = [pc EXCEPT ![p] = "ret"]
            /\ UNCHANGED primaryDir
       ELSE /\ primaryDir' = TRUE
            /\ pc' = [pc EXCEPT ![p] = "acq_primary"]
            /\ UNCHANGED <<result, how>>
    /\ UNCHANGED <<primary, legacy, legacyDir, lock, nextUuid, caller,
                   user_id, cache, call, hist>>

\* mutant: the body runs without the primary lock
AcquirePrimaryUnlocked(p) ==
    /\ pc[p] = "acq_primary"
    /\ pc' = [pc EXCEPT ![p] = "read_primary"]
    /\ UNCHANGED <<files, lock, nextUuid, caller, user_id, cache, result, how,
                   call, hist>>

\* with FileLock(lockfile, timeout=5):
AcquirePrimary(p) ==
    /\ pc[p] = "acq_primary"
    /\ CanAcquire("primary")
    /\ lock' = [lock EXCEPT !["primary"] = p]
    /\ pc' = [pc EXCEPT ![p] = "read_primary"]
    /\ UNCHANGED <<files, nextUuid, caller, user_id, cache, result, how,
                   call, hist>>

\* except Timeout: logger.debug(...), then the return statement reads the
\* local user_id, which was never assigned: UnboundLocalError leaves the
\* call (lru_cache keeps no exception)
TimeoutPrimary(p) ==
    /\ pc[p] = "acq_primary"
    /\ TimesOut("primary")
    /\ result' = [result EXCEPT ![p] = ReturnValue(user_id[p])]
    /\ how' = [how EXCEPT ![p] = "timeout_primary"]
    /\ pc' = [pc EXCEPT ![p] = "ret"]
    /\ UNCHANGED <<files, lock, nextUuid, caller, user_id, cache, call,
                   hist>>

\* mutant: the test "if user_id is None" is missing, the legacy read and
\* the write follow every read of the primary file
ReadPrimaryThenRewrite(p) ==
    /\ pc[p] = "read_primary"
    /\ user_id' = [user_id EXCEPT ![p] = _read_user_id(primary)]
    /\ pc' = [pc EXCEPT ![p] = "legacy_dir"]
    /\ UNCHANGED <<files, lock, nextUuid, caller, cache, result, how, call,
                   hist>>

\* user_id = _read_user_id(config_file); if user_id is None: ...
\* an exception of _read_user_id leaves the with blocks, which release
\* their locks, and the call
ReadPrimary(p) ==
    /\ pc[p] = "read_primary"
    /\ IF _read_user_id(primary) \in Exceptions
       THEN /\ lock' = [lock EXCEPT !["primary"] = NoOne]
            /\ result' = [result EXCEPT ![p] = _read_user_id(primary)]
            /\ how' = [how EXCEPT ![p] = "raised"]
            /\ pc' = [pc EXCEPT ![p] = "ret"]
            /\ UNCHANGED user_id
       ELSE /\ user_id' = [user_id EXCEPT ![p] = _read_user_id(primary)]
            /\ IF _read_user_id(primary) = None
               THEN /\ pc' = [pc EXCEPT ![p] = "legacy_dir"]
                    /\ UNCHANGED how
               ELSE /\ pc' = [pc EXCEPT ![p] = "exit"]
                    /\ how' = [how EXCEPT ![p] = "primary"]
            /\ UNCHANGED <<lock, result>>
    /\ UNCHANGED <<files, nextUuid, caller, cache, call, hist>>

\* _read_user_id_locked: if config_file.parent.is_dir(): ... return None
LegacyIsDir(p) ==
    /\ pc[p] = "legacy_dir"
    /\ pc' = [pc EXCEPT ![p] = IF legacyDir THEN "acq_legacy" ELSE "generate"]
    /\ UNCHANGED <<files, lock, nextUuid, caller, user_id, cache, result,
                   how, call, hist>>

\* with FileLock(lockfile, timeout=5): on the legacy lock
AcquireLegacy(p) ==
    /\ pc[p] = "acq_legacy"
    /\ CanAcquire("legacy")
    /\ lock' = [lock EXCEPT !["legacy"] = p]
    /\ pc' = [pc EXCEPT ![p] = "read_legacy"]
    /\ UNCHANGED <<files, nextUuid, caller, user_id, cache, result, how,
                   call, hist>>

\* mutant: the Timeout of the legacy lock is swallowed, a new identifier
\* follows
TimeoutLegacyThenGenerate(p) ==
    /\ pc[p] = "acq_legacy"
    /\ TimesOut("legacy")
    /\ pc' = [pc EXCEPT ![p] = "generate"]
    /\ UNCHANGED <<files, lock, nextUuid, caller, user_id, cache, result,
                   how, call, hist>>

\* except Timeout: ... return None, from inside the with block: the primary
\* lock is released, None is the result, which lru_cache keeps
TimeoutLegacy(p) ==
    /\ pc[p] = "acq_legacy"
    /\ TimesOut("legacy")
    /\ lock' = [lock EXCEPT !["primary"] = NoOne]
    /\ result' = [result EXCEPT ![p] = None]
    /\ cache' = [cache EXCEPT ![p] = None]
    /\ how' = [how EXCEPT ![p] = "timeout_legacy"]
    /\ pc' = [pc EXCEPT ![p] = "ret"]
    /\ UNCHANGED <<files, nextUuid, caller, user_id, call, hist>>

\* return _read_user_id(config_file) under the legacy lock, which the with
\* block then releases; if user_id is None: generate
ReadLegacy(p) ==
    /\ pc[p] = "read_legacy"
    /\ IF _read_user_id(legacy) \in Exceptions
       THEN /\ lock' = [f \in {"primary", "legacy"} |-> NoOne]
            /\ result' = [result EXCEPT ![p] = _read_user_id(legacy)]
            /\ how' = [how EXCEPT ![p] = "raised"]
            /\ pc' = [pc EXCEPT ![p] = "ret"]
            /\ UNCHANGED user_id
       ELSE /\ user_id' = [user_id EXCEPT ![p] = _read_user_id(legacy)]
            /\ lock' = [lock EXCEPT !["legacy"] = NoOne]
            /\ IF _read_user_id(legacy) = None
               THEN /\ pc' = [pc EXCEPT ![p] = "generate"]
                    /\ UNCHANGED how
               ELSE /\ pc' = [pc EXCEPT ![p] = "open"]
                    /\ how' = [how EXCEPT ![p] = "legacy"]
            /\ UNCHANGED result
    /\ UNCHANGED <<files, nextUuid, caller, cache, call, hist>>

\* user_id = _generate_id()
Generate(p) ==
    /\ pc[p] = "generate"
    /\ nextUuid <= MaxGen
    /\ user_id' = [user_id EXCEPT ![p] = _generate_id(nextUuid)]
    /\ nextUuid' = nextUuid + 1
    /\ how' = [how EXCEPT ![p] = "generated"]
    /\ pc' = [pc EXCEPT ![p] = "open"]
    /\ UNCHANGED <<files, lock, caller, cache, result, call, hist>>

\* config_file.open(mode="w"): the file exists and is empty
OpenWrite(p) ==
    /\ pc[p] = "open"
    /\ primary' = Malformed
    /\ pc' = [pc EXCEPT ![p] = "dump"]
    /\ UNCHANGED <<primaryDir, legacy, legacyDir, lock, nextUuid, caller,
                   user_id, cache, result, how, call, hist>>

\* mutant: the file is opened for writing and nothing is written
DumpNothing(p) ==
    /\ pc[p] = "dump"
    /\ pc' = [pc EXCEPT ![p] = "exit"]
    /\ UNCHANGED <<files, lock, nextUuid, caller, user_id, cache, result,
                   how, call, hist>>

\* json.dump({"user_id": user_id}, fobj) and the close of the file
Dump(p) ==
    /\ pc[p] = "dump"
    /\ primary' = json_dump(user_id[p])
    /\ origin' = IF how[p] = "legacy" THEN "migrated" ELSE "generated"
    /\ pc' = [pc EXCEPT ![p] = "exit"]
    /\ UNCHANGED <<primaryDir, legacy, legacyDir, lock, nextUuid, caller,
                   user_id, cache, result, how, call, last>>

\* the with block ends (the primary lock is released) and
\* return user_id if user_id.lower() != DO_NOT_TRACK_VALUE.lower() else None
ExitLock(p) ==
    /\ pc[p] = "exit"
    /\ lock' = [lock EXCEPT !["primary"] = NoOne]
    /\ result' = [result EXCEPT ![p] = ReturnValue(user_id[p])]
    /\ cache' = [cache EXCEPT ![p] = ReturnValue(user_id[p])]
    /\ pc' = [pc EXCEPT ![p] = "ret"]
    /\ UNCHANGED <<files, nextUuid, caller, user_id, how, call, hist>>

\* the frame of the resolution is gone once its caller has the result
Returned(p) ==
    /\ caller' = [caller EXCEPT ![p] = "none"]
    /\ user_id' = [user_id EXCEPT ![p] = Unbound]
    /\ result' = [result EXCEPT ![p] = NoResult]
    /\ how' = [how EXCEPT ![p] = "none"]
    /\ last' = [last EXCEPT ![p] =
                  IF how[p] \in {"primary", "legacy", "generated"}
                  THEN result[p] ELSE last[p]]

\* the call returns to a caller outside the logger
ReturnDirect(p) ==
    /\ pc[p] = "ret"
    /\ caller[p] = "direct"
    /\ pc' = [pc EXCEPT ![p] = "idle"]
    /\ Returned(p)
    /\ UNCHANGED <<files, lock, nextUuid, cache, call, origin>>

\* find_or_create_user_id.cache_clear()
CacheClear(p) ==
    /\ pc[p] = "idle"
    /\ cache[p] # Miss
    /\ cache' = [cache EXCEPT ![p] = Miss]
    /\ UNCHANGED <<files, lock, nextUuid, pc, caller, user_id, result, how,
                   call, hist>>

Resolve(p) ==
    \/ DirectCall(p)
    \/ Enter(p)
    \/ AcquirePrimary(p)
    \/ TimeoutPrimary(p)
    \/ ReadPrimary(p)
    \/ LegacyIsDir(p)
    \/ AcquireLegacy(p)
    \/ TimeoutLegacy(p)
    \/ ReadLegacy(p)
    \/ Generate(p)
    \/ OpenWrite(p)
    \/ Dump(p)
    \/ ExitLock(p)
    \/ ReturnDirect(p)
    \/ CacheClear(p)

\* ------------------------------------------------ IterativeTelemetryLogger
\* One send_event call is followed at a time; the processes meet only in
\* the identity store, which every process may use at any time.

\* callable(self.enabled)
callable(enabled) == enabled \in {"callable_true", "callable_false"}

\* mutant: the answer of the callable is not looked at
EnabledByCallableUnasked(env, enabled) == env = "unset"

\* the branch of is_enabled that never calls _find_or_create_user_id:
\* os.environ.get(DO_NOT_TRACK_ENV, None) is None and self.enabled()
EnabledByCallable(env, enabled) == env = "unset" /\ enabled = "callable_true"

\* The arguments of a call and the environment of its process are chosen
\* where the code first reads them, and recorded in call; what a call never
\* read is chosen when the call ends, so that the finished call shows all
\* of them ("-": not chosen yet).
Flags == {"True", "False", "omitted"}
EnvSettings == {"set", "unset"}
Choices(field, all) == IF field = "-" THEN all ELSE {field}

\* the send_event call ends: it returns, or an exception leaves it
Finish(c, outcome, strategy, post) ==
    \E env \in Choices(c.env, EnvSettings),
       use_thread \in Choices(c.use_thread, Flags),
       use_daemon \in Choices(c.use_daemon, Flags) :
        call' = [c EXCEPT !.stage = "done", !.outcome = outcome,
                             !.strategy = strategy, !.post = post,
                             !.env = env, !.use_thread = use_thread,
                             !.use_daemon = use_daemon]

\* send_event(interface, action, error, use_thread, use_daemon, **kwargs) on
\* a logger made with the given enabled argument
SendEvent(p) ==
    /\ pc[p] = "idle"
    /\ call = NoCall
    /\ \E enabled \in EnabledSettings :
         call' = [NoCall EXCEPT !.proc = p, !.stage = "is_enabled",
                                !.enabled = enabled, !.outcome = "running"]
    /\ pc' = [pc EXCEPT ![p] = "send"]
    /\ UNCHANGED <<files, lock, nextUuid, caller, user_id, cache, result,
                   how, hist>>

\* send: if not self.is_enabled(): return
\* is_enabled: (env is None and self.enabled()) if callable(self.enabled)
\*             else (self.enabled and _find_or_create_user_id() is not None)
IsEnabled(p) ==
    /\ pc[p] = "send"
    /\ call.proc = p
    /\ call.stage = "is_enabled"
    /\ IF callable(call.enabled)
       THEN /\ \E env \in EnvSettings :
                 IF EnabledByCallable(env, call.enabled)
                 THEN call' = [call EXCEPT !.stage = "runtime_info",
                                           !.env = env]
                 ELSE Finish([call EXCEPT !.env = env], "returned", "none",
                             "none")
            /\ UNCHANGED <<pc, caller>>
       ELSE IF call.enabled = "False"
       THEN /\ Finish(call, "returned", "none", "none")
            /\ UNCHANGED <<pc, caller>>
       ELSE /\ pc' = [pc EXCEPT ![p] = "call"]
            /\ caller' = [caller EXCEPT ![p] = "is_enabled"]
            /\ UNCHANGED call
    /\ UNCHANGED <<files, lock, nextUuid, user_id, cache, result, how, hist>>

\* the lock that the resolution which just ended gave up waiting for
TimedOut(p) ==
    IF how[p] = "timeout_primary" THEN "primary"
    ELSE IF how[p] = "timeout_legacy" THEN "legacy" ELSE call.timeout

\* _find_or_create_user_id() is not None, back in is_enabled
ReturnIsEnabled(p) ==
    /\ pc[p] = "ret"
    /\ caller[p] = "is_enabled"
    /\ pc' = [pc EXCEPT ![p] = "send"]
    /\ LET c == [call EXCEPT !.timeout = TimedOut(p)]
       IN  IF result[p] \in Exceptions
           THEN Finish(c, result[p], "none", "none")
           ELSE IF result[p] = None
           THEN Finish(c, "returned", "none", "none")
           ELSE call' = [c EXCEPT !.stage = "runtime_info"]
    /\ Returned(p)
    /\ UNCHANGED <<files, lock, nextUuid, cache, origin>>

\* _system_info raises NotImplementedError unless platform.system() is
\* Windows, Darwin or Linux
SystemSupported(system) == system \in {"Windows", "Darwin", "Linux"}

\* payload.update(self._runtime_info()): the dict is built in order,
\* **_system_info() before "user_id": _find_or_create_user_id()
RuntimeInfo(p) ==
    /\ pc[p] = "send"
    /\ call.proc = p
    /\ call.stage = "runtime_info"
    /\ \E system \in Systems :
         IF SystemSupported(system)
         THEN /\ call' = [call EXCEPT !.system = system]
              /\ pc' = [pc EXCEPT ![p] = "call"]
              /\ caller' = [caller EXCEPT ![p] = "runtime_info"]
         ELSE /\ Finish([call EXCEPT !.system = system],
                         NotImplementedError, "none", "none")
              /\ UNCHANGED <<pc, caller>>
    /\ UNCHANGED <<files, lock, nextUuid, user_id, cache, result, how, hist>>

\* "user_id": _find_or_create_user_id(), back in _runtime_info
ReturnRuntimeInfo(p) ==
    /\ pc[p] = "ret"
    /\ caller[p] = "runtime_info"
    /\ pc' = [pc EXCEPT ![p] = "send"]
    /\ LET c == [call EXCEPT !.timeout = TimedOut(p)]
       IN  IF result[p] \in Exceptions
           THEN Finish(c, result[p], "none", "none")
           ELSE call' = [c EXCEPT !.stage = "dispatch",
                                  !.user_id = result[p]]
    /\ Returned(p)
    /\ UNCHANGED <<files, lock, nextUuid, cache, origin>>

\* use_thread: bool = False, use_daemon: bool = True: the value of a flag
\* in the body of send_event
Given(flag, default) == IF flag = "omitted" THEN default ELSE flag

\* mutant: the thread is never chosen
StrategyWithoutThread(use_thread, use_daemon) ==
    IF use_daemon = "True" THEN "daemon" ELSE "sync"

\* impl = self._send; if use_daemon: impl = self._send_daemon;
\* if use_thread: impl = self._send_thread
Strategy(use_thread, use_daemon) ==
    IF use_thread = "True" THEN "thread"
    ELSE IF use_daemon = "True" THEN "daemon" ELSE "sync"

\* mutant: _send without try/except, an exception of requests.post leaves it
_send_unguarded(post) ==
    IF post = "failed" THEN "<ConnectionError>" ELSE "returned"

\* _send: requests.post(...) inside try ... except Exception: logger.debug;
\* how _send ends when the post succeeded ("ok") or raised ("failed")
_send(post) == "returned"

\* the rest of send: the check of the two flags, then impl(payload).
\* _send posts and swallows every exception of the transport; _send_thread
\* starts a thread that runs _send (its post succeeds or fails, whenever it
\* runs) and returns; _send_daemon starts a process that posts later
Dispatch(p) ==
    /\ pc[p] = "send"
    /\ call.proc = p
    /\ call.stage = "dispatch"
    /\ \E use_thread, use_daemon \in Flags :
         LET c == [call EXCEPT !.use_thread = use_thread,
                               !.use_daemon = use_daemon]
             thread == Given(use_thread, "False")
             daemon == Given(use_daemon, "True")
             s == Strategy(thread, daemon)
         IN  IF thread = "True" /\ daemon = "True"
             THEN Finish(c, ValueError, "none", "none")
             ELSE IF s = "daemon" /\ os_name(c.system) \notin {"nt", "posix"}
             THEN Finish(c, NotImplementedError, "none", "none")
             ELSE \E interface \in Interfaces, action \in Actions,
                     tool_name \in ToolNames, tool_version \in ToolVersions :
                  LET d == [c EXCEPT
                              !.interface = interface, !.action = action,
                              !.tool_name = tool_name,
                              !.tool_version = tool_version,
                              !.body = Payload(interface, action,
                                         _runtime_info(tool_name,
                                             tool_version, c.system,
                                             c.user_id))]
                  IN  IF s = "sync"
                      THEN \E post \in {"ok", "failed"} :
                             Finish([d EXCEPT !.posts = 1], _send(post), s,
                                    post)
                      ELSE IF s = "thread"
                      THEN \E post \in {"ok", "failed"} :
                             Finish(d, "returned", s, post)
                      ELSE Finish(d, "returned", s, "later")
    /\ UNCHANGED <<files, lock, nextUuid, procv, hist>>

\* the caller goes on after send_event
EndCall(p) ==
    /\ pc[p] = "send"
    /\ call.proc = p
    /\ call.stage = "done"
    /\ call' = NoCall
    /\ pc' = [pc EXCEPT ![p] = "idle"]
    /\ UNCHANGED <<files, lock, nextUuid, caller, user_id, cache, result,
                   how, hist>>

Send(p) ==
    \/ SendEvent(p)
    \/ IsEnabled(p)
    \/ ReturnIsEnabled(p)
    \/ RuntimeInfo(p)
    \/ ReturnRuntimeInfo(p)
    \/ Dispatch(p)
    \/ EndCall(p)

\* ------------------------------------------------------- the environment
\* The user, or another tool, edits or deletes an identity file by hand (no
\* lock is taken), and an older tool takes and releases the legacy lock.
ExtWritePrimary ==
    /\ \E c \in ForeignContents : primary' = c
    /\ primaryDir' = TRUE
    /\ origin' = "outside"
    /\ last' = [p \in Procs |-> NoResult]
    /\ UNCHANGED <<legacy, legacyDir, lock, nextUuid, procv, call>>

ExtDeletePrimary ==
    /\ primary # Absent
    /\ primary' = Absent
    /\ origin' = "outside"
    /\ last' = [p \in Procs |-> NoResult]
    /\ UNCHANGED <<primaryDir, legacy, legacyDir, lock, nextUuid, procv, call>>

ExtWriteLegacy ==
    /\ \E c \in ForeignContents : legacy' = c
    /\ legacyDir' = TRUE
    /\ UNCHANGED <<primary, primaryDir, lock, nextUuid, procv, call, hist>>

\* os.unlink(old_config_file), and os.rmdir(old_config_dir) or not
ExtDeleteLegacy ==
    /\ legacyDir
    /\ legacy' = Absent
    /\ legacyDir' \in (IF lock["legacy"] = NoOne THEN BOOLEAN ELSE {TRUE})
    /\ <<legacy', legacyDir'>> # <<legacy, legacyDir>>
    /\ UNCHANGED <<primary, primaryDir, lock, nextUuid, procv, call, hist>>

ExtLockLegacy ==
    /\ legacyDir
    /\ lock["legacy"] = NoOne
    /\ lock' = [lock EXCEPT !["legacy"] = ExtHolder]
    /\ UNCHANGED <<files, nextUuid, procv, call, hist>>

ExtUnlockLegacy ==
    /\ lock["legacy"] = ExtHolder
    /\ lock' = [lock EXCEPT !["legacy"] = NoOne]
    /\ UNCHANGED <<files, nextUuid, procv, call, hist>>

EnvLock == ExtLockLegacy \/ ExtUnlockLegacy
EnvLegacy == ExtWriteLegacy \/ ExtDeleteLegacy
EnvPrimary == ExtWritePrimary \/ ExtDeletePrimary

\* ----------------------------------------------------------- behaviours
\* the library in every process, on a store whose primary file only the
\* library writes; the legacy file and its lock belong to an older tool too
Next ==
    \/ \E p \in Procs : Resolve(p)
    \/ \E p \in Procs : Send(p)
    \/ EnvLock
    \/ EnvLegacy

Spec == Init /\ [][Next]_vars

\* the identity store alone, without the logger
NextStore ==
    \/ \E p \in Procs : Resolve(p)
    \/ EnvLock
    \/ EnvLegacy

SpecStore == Init /\ [][NextStore]_vars

\* processes racing on a fresh store that nobody edits
NextFresh ==
    \/ \E p \in Procs : Resolve(p)
    \/ EnvLock

SpecFresh == InitFresh /\ [][NextFresh]_vars

\* the identity store, from every initial content, with nobody editing it
SpecClosed == Init /\ [][NextFresh]_vars

\* the statements of a running resolution, from the call to its end: a
\* process that is inside goes on (no statement waits longer than the 5
\* seconds of a FileLock); the callers and the holder of the legacy lock
\* outside are under no obligation
Body(p) ==
    \/ Enter(p)
    \/ AcquirePrimary(p)
    \/ TimeoutPrimary(p)
    \/ ReadPrimary(p)
    \/ LegacyIsDir(p)
    \/ AcquireLegacy(p)
    \/ TimeoutLegacy(p)
    \/ ReadLegacy(p)
    \/ Generate(p)
    \/ OpenWrite(p)
    \/ Dump(p)
    \/ ExitLock(p)

SpecClosedFair == SpecClosed /\ \A p \in Procs : WF_vars(Body(p))
SpecFreshFair == SpecFresh /\ \A p \in Procs : WF_vars(Body(p))

\* the library in every process on a store that nobody else edits
NextQuiet ==
    \/ \E p \in Procs : Resolve(p)
    \/ \E p \in Procs : Send(p)
    \/ EnvLock

SpecQuiet == Init /\ [][NextQuiet]_vars

\* the library in every process on a store that starts fresh
SpecScenario == InitFresh /\ [][NextQuiet]_vars

\* a store that starts fresh and whose primary file a user deletes
NextCached ==
    \/ \E p \in Procs : Resolve(p)
    \/ EnvLock
    \/ ExtDeletePrimary

SpecCached == InitFresh /\ [][NextCached]_vars

\* the identity store with a user who edits and deletes both files
NextEdited ==
    \/ \E p \in Procs : Resolve(p)
    \/ EnvLock
    \/ EnvLegacy
    \/ EnvPrimary

SpecEdited == Init /\ [][NextEdited]_vars

\* ----------------------------------------------------------- properties
\* a value that identifies a user: neither None nor an exception
IsIdentifier(v) == v \in Uuids \cup ForeignIds

\* what a caller gets for a stored value: the value, None for the marker
Visible(uid) == IF uid \in SentinelSpellings THEN None ELSE uid

\* the resolution ran under the primary lock to its end
Locked(p) == how[p] \in {"primary", "legacy", "generated"}

HoldsSentinel(file) ==
    file.kind = "record" /\ file.user_id \in SentinelSpellings

\* C1: processes racing on a fresh store (SpecFresh): one identifier is
\* generated and no second one; every call that returns an identifier, and
\* every cache that holds one, has that identifier, which the primary file
\* then holds; and a process that reads the primary file under the lock
\* finds it absent or holding exactly that record, never a truncated file.
C1_FreshRaceConverges ==
    /\ nextUuid <= 2
    /\ \A p \in Procs :
         (pc[p] = "ret" /\ IsIdentifier(result[p]))
            => (result[p] = _generate_id(1) /\ primary = Record(result[p]))
    /\ \A p \in Procs : IsIdentifier(cache[p]) => cache[p] = _generate_id(1)
    /\ \A p \in Procs :
         pc[p] = "read_primary"
            => primary \in {Absent, Record(_generate_id(1))}

\* C1 witness: two calls return together, one generated the identifier
\* and the other read it from the primary file
C1_Witness ==
    \E p, q \in Procs :
        /\ pc[p] = "ret" /\ how[p] = "generated"
        /\ pc[q] = "ret" /\ how[q] = "primary"
        /\ IsIdentifier(result[p]) /\ result[q] = result[p]

\* C2: a resolution that runs again under the lock (the cache was cleared)
\* returns what the previous such resolution of the same process returned,
\* from every initial store.
C2_SecondCallSameValue ==
    \A p \in Procs :
        (pc[p] = "ret" /\ Locked(p) /\ last[p] # NoResult)
            => result[p] = last[p]

\* C2 witness: on a store that started without identifier the second call
\* of a process returns the generated identifier of its first call
C2_Witness ==
    \E p \in Procs :
        /\ pc[p] = "ret" /\ how[p] = "primary" /\ origin = "generated"
        /\ IsIdentifier(result[p]) /\ last[p] = result[p]

\* C3 as stated: the resolution that found V in the legacy file returns V
\* and the primary file holds V.
C3_Original ==
    \A p \in Procs :
        (pc[p] = "ret" /\ how[p] = "legacy")
            => (result[p] = user_id[p] /\ primary = Record(user_id[p]))

\* C3 amended: the resolution that found V in the legacy file leaves the
\* primary file holding V and returns V, or None when V is the opt-out
\* marker; once the primary file holds the migrated value, every resolution
\* that runs under the lock reads it there and returns the same, and every
\* cached identifier is that value, whatever happens to the legacy file.
C3_Migration ==
    /\ \A p \in Procs :
         (pc[p] \in {"exit", "ret"} /\ how[p] = "legacy")
            => primary = Record(user_id[p])
    /\ \A p \in Procs :
         (pc[p] = "ret" /\ how[p] = "legacy")
            => result[p] = Visible(user_id[p])
    /\ origin = "migrated" =>
         /\ primary.kind = "record"
         /\ \A p \in Procs :
              (pc[p] = "ret" /\ Locked(p))
                 => (how[p] # "generated"
                     /\ result[p] = Visible(primary.user_id))
         /\ \A p \in Procs :
              IsIdentifier(cache[p]) => cache[p] = primary.user_id

\* C3 witness: after the migration of "1234" the legacy file and its
\* directory are gone, and a process whose earlier call returned "1234"
\* gets "1234" again from a resolution that read the primary file
C3_Witness ==
    \E p \in Procs :
        /\ origin = "migrated" /\ legacy = Absent /\ ~legacyDir
        /\ pc[p] = "ret" /\ how[p] = "primary"
        /\ result[p] = "1234" /\ last[p] = "1234"

\* C4: a resolution that read the opt-out marker, in any spelling, from the
\* primary file returns None, and the primary file still holds the marker.
C4_PrimarySentinel ==
    \A p \in Procs :
        (pc[p] \in {"exit", "ret"} /\ how[p] = "primary"
         /\ user_id[p] \in SentinelSpellings)
            => /\ primary = Record(user_id[p])
               /\ pc[p] = "ret" => result[p] = None

\* C4 witness: the upper-case marker was read, None is returned, and the
\* legacy file holds an identifier that was not used
C4_Witness ==
    \E p \in Procs :
        /\ pc[p] = "ret" /\ how[p] = "primary"
        /\ user_id[p] = "DO-NOT-TRACK" /\ result[p] = None
        /\ primary = Record("DO-NOT-TRACK") /\ legacy = Record("1234")

\* C5: every payload handed to a delivery strategy carries a resolved
\* identifier as user_id (never None).
C5_PayloadHasIdentifier ==
    (call.stage = "done" /\ call.strategy # "none")
        => IsIdentifier(call.user_id)

\* C6: with ITERATIVE_DO_NOT_TRACK set no payload reaches a delivery
\* strategy.
C6_EnvOverrideSuppresses ==
    (call.stage = "done" /\ call.env = "set") => call.strategy = "none"

\* C7: send_event with use_thread and use_daemon both true raises the
\* configuration error (ValueError) and delivers nothing, whatever the
\* state of the logger.
C7_BothFlagsRaise ==
    (call.stage = "done" /\ call.use_thread = "True"
     /\ call.use_daemon = "True")
        => (call.outcome = ValueError /\ call.strategy = "none")

\* C8: a resolution that timed out on the primary lock returns None.
C8_PrimaryTimeoutReturnsNone ==
    \A p \in Procs :
        (pc[p] = "ret" /\ how[p] = "timeout_primary") => result[p] = None

\* C9: a step of the library or of the owner of the legacy file never
\* changes a primary file that holds a record (SpecStore has no step that
\* edits the primary file from outside).
C9_PrimaryNeverRewritten ==
    [][primary.kind = "record" => primary' = primary]_vars

\* C9 witness: the primary file holds a generated identifier, the legacy
\* file another one, and a later resolution has read the primary file
C9_Witness ==
    \E p \in Procs :
        /\ origin = "generated" /\ primary.kind = "record"
        /\ legacy = Record("1234")
        /\ pc[p] = "ret" /\ how[p] = "primary" /\ last[p] = result[p]

\* C10: while either identity file holds the opt-out marker (SpecQuiet:
\* nobody edits the files), no resolution that runs its body returns an
\* identifier and no send_event call delivers a payload.
C10_SentinelInEitherFile ==
    (HoldsSentinel(primary) \/ HoldsSentinel(legacy))
        => /\ \A p \in Procs :
                (pc[p] = "ret" /\ how[p] # "cached")
                    => ~IsIdentifier(result[p])
           /\ call.stage = "done" => call.strategy = "none"

\* C11: a resolution that ran under the lock and returns an identifier
\* leaves the legacy file holding {"user_id": <that identifier>} (written
\* there unless it was there already).
C11_LegacyCopyWritten ==
    \A p \in Procs :
        (pc[p] = "ret" /\ Locked(p) /\ IsIdentifier(result[p]))
            => legacy = Record(result[p])

\* C12: on a store that started fresh (SpecScenario), a finished send_event
\* call of a logger with enabled=True, use_thread=False (passed or by
\* default) and use_daemon=False,
\* on a platform the host descriptor knows, with no lock wait that timed
\* out in the call and no None cached from an earlier wait that did,
\* returned after exactly one POST through the synchronous strategy;
\* the body has the tool_name and tool_version of the logger, the os_name
\* and os_version of _system_info, the interface and action of the call,
\* and as user_id the one generated identifier, which the primary file holds.
C12_FreshSyncPost ==
    (/\ call.stage = "done" /\ call.enabled = "True"
     /\ Given(call.use_thread, "False") = "False"
     /\ call.use_daemon = "False"
     /\ call.system \notin Systems \ {"Linux", "Darwin", "Windows"}
     /\ call.timeout = "none" /\ cache[call.proc] # None)
        => /\ call.outcome = "returned"
           /\ call.strategy = "sync" /\ call.posts = 1
           /\ call.interface \in Interfaces /\ call.action \in Actions
           /\ call.tool_name \in ToolNames
           /\ call.tool_version \in ToolVersions
           /\ call.system \in Systems
           /\ call.body.interface = call.interface
           /\ call.body.action = call.action
           /\ call.body.tool_name = call.tool_name
           /\ call.body.tool_version = call.tool_version
           /\ call.body.os_name = _system_info(call.system).os_name
           /\ call.body.os_version = _system_info(call.system).os_version
           /\ call.body.user_id = _generate_id(1)
           /\ primary = Record(call.body.user_id)

\* C12 witness: send_event("cli", "run") of a dvc logger on Linux has posted
\* once, with the identifier that its process generated and cached
C12_Witness ==
    /\ call.stage = "done" /\ call.enabled = "True"
    /\ call.use_thread = "False" /\ call.use_daemon = "False"
    /\ call.strategy = "sync" /\ call.posts = 1
    /\ call.body.interface = "cli" /\ call.body.action = "run"
    /\ call.body.tool_name = "dvc" /\ call.body.tool_version = "2.0"
    /\ call.body.os_name = "linux" /\ call.body.os_version = "22.04"
    /\ call.body.user_id = _generate_id(1)
    /\ primary = Record(_generate_id(1))
    /\ cache[call.proc] = _generate_id(1)
    /\ nextUuid = 2

\* C13: a finished send_event call whose payload was assembled and whose
\* flags are not both true returned after handing the payload to one
\* strategy: the thread when use_thread is true, the detached process when
\* use_daemon is true, the synchronous post when both are false; a call
\* that passed neither flag used the detached process.
C13_OneStrategyByFlags ==
    LET thread == Given(call.use_thread, "False")
        daemon == Given(call.use_daemon, "True")
    IN  (/\ call.stage = "done" /\ call.user_id # Unbound
         /\ ~(thread = "True" /\ daemon = "True"))
            => /\ call.outcome = "returned"
               /\ call.strategy \in {"thread", "daemon", "sync"}
               /\ call.body # NoBody
               /\ call.strategy = "thread" <=> call.use_thread = "True"
               /\ call.strategy = "daemon" <=> daemon = "True"
               /\ call.strategy = "sync" <=>
                     (thread = "False" /\ call.use_daemon = "False")
               /\ (call.use_thread = "omitted"
                    /\ call.use_daemon = "omitted")
                      => call.strategy = "daemon"

\* C13 witness: a call with use_thread=True and use_daemon=False went to
\* the thread
C13_Witness ==
    /\ call.stage = "done" /\ call.use_thread = "True"
    /\ call.use_daemon = "False" /\ call.strategy = "thread"
    /\ call.outcome = "returned" /\ IsIdentifier(call.body.user_id)

\* C14: a resolution that waits for the legacy lock (the primary file gave
\* no identifier) while somebody else holds it ends there: it returns None,
\* no identifier is generated, neither file is written, the primary lock is
\* released and the legacy lock stays with its holder; and next to a call
\* that ended so, a resolution that found a value in the legacy file has
\* put it into the primary file and returns it (None for the marker).
C14_LegacyTimeout ==
    [][/\ \A p \in Procs :
            (pc[p] = "acq_legacy" /\ lock["legacy"] # NoOne
             /\ pc'[p] # pc[p])
               => /\ user_id[p] = None
                  /\ pc'[p] = "ret" /\ result'[p] = None
                  /\ nextUuid' = nextUuid
                  /\ primary' = primary /\ legacy' = legacy
                  /\ lock["primary"] = p /\ lock'["primary"] = NoOne
                  /\ lock'["legacy"] = lock["legacy"]
       /\ \A p, q \in Procs :
            (pc[p] = "ret" /\ how[p] = "timeout_legacy"
             /\ pc[q] = "ret" /\ how[q] = "legacy")
               => /\ primary = Record(user_id[q])
                  /\ result[q] = Visible(user_id[q])]_vars

\* C14 witness: one call has returned None after the wait for the legacy
\* lock; the lock was freed, and the call of another process has migrated
\* "1234" from the legacy file
C14_Witness ==
    \E p, q \in Procs :
        /\ pc[p] = "ret" /\ how[p] = "timeout_legacy" /\ result[p] = None
        /\ cache[p] = None /\ lock["legacy"] = NoOne
        /\ pc[q] = "ret" /\ how[q] = "legacy" /\ result[q] = "1234"
        /\ primary = Record("1234") /\ origin = "migrated"

\* C15: on a store that nobody edits (SpecClosed), a resolution that ran
\* its body and met no lock timeout raises nothing, whatever the two files
\* held (malformed JSON, JSON without the user_id key, no file): it returns
\* the value the primary file then holds as a well-formed record (None for
\* the marker).
C15_UnreadableIsNotFound ==
    \A p \in Procs :
        (pc[p] = "ret"
         /\ how[p] \notin {"cached", "timeout_primary", "timeout_legacy"})
            => /\ result[p] \notin Exceptions
               /\ primary.kind = "record"
               /\ result[p] = Visible(primary.user_id)

\* where a process is inside the with block of the primary lock, and where
\* it reads or writes the primary file there
InPrimaryBlock(p) ==
    pc[p] \in {"read_primary", "legacy_dir", "acq_legacy", "read_legacy",
               "generate", "open", "dump", "exit"}
AtPrimaryFile(p) == pc[p] \in {"read_primary", "open", "dump"}
AtLegacyFile(p) == pc[p] = "read_legacy"

\* C16: a process that is about to read the primary file, or to open or
\* write it, holds the primary lock, and so does every process inside the
\* with block; a process that is about to read the legacy file holds the
\* legacy lock; at most one process is inside the block of the primary lock
\* and at most one process, the older tool included, has the legacy lock.
C16_LockGuarded ==
    /\ \A p \in Procs : AtPrimaryFile(p) => lock["primary"] = p
    /\ \A p \in Procs : InPrimaryBlock(p) <=> lock["primary"] = p
    /\ \A p \in Procs : AtLegacyFile(p) <=> lock["legacy"] = p
    /\ Cardinality({p \in Procs : InPrimaryBlock(p)}) <= 1
    /\ Cardinality({p \in Procs : AtLegacyFile(p)}
                   \cup (IF lock["legacy"] = ExtHolder THEN {ExtHolder}
                         ELSE {})) <= 1
    /\ lock["primary"] \in Procs \cup {NoOne}
    /\ lock["legacy"] \in Procs \cup {NoOne, ExtHolder}

\* C16 witness: one process reads the legacy file with both locks while
\* another one waits for the primary lock
C16_Witness ==
    \E p, q \in Procs :
        /\ p # q /\ pc[p] = "read_legacy"
        /\ lock["primary"] = p /\ lock["legacy"] = p
        /\ legacy = Record("1234") /\ pc[q] = "acq_primary"

\* C17: in every step, for every process p: a call of p that finds a result
\* in the cache of p returns it, and the step changes no lock, no file, no
\* directory and generates nothing; a call that finds the cache empty
\* starts the body; the cache of p changes only when p leaves the body with
\* a result (which is what goes into the cache) or when p, between calls,
\* clears it; so no step of another process changes it.
C17_CachedUntilCleared ==
    [][\A p \in Procs :
         /\ (pc[p] = "call" /\ cache[p] # Miss /\ pc'[p] # pc[p])
               => /\ pc'[p] = "ret" /\ result'[p] = cache[p]
                  /\ result'[p] \notin Exceptions
                  /\ lock' = lock /\ files' = files
                  /\ nextUuid' = nextUuid /\ cache' = cache
         /\ (pc[p] = "call" /\ cache[p] = Miss /\ pc'[p] # pc[p])
               => (pc'[p] = "acq_primary" /\ cache'[p] = Miss)
         /\ cache'[p] # cache[p]
               => \/ /\ pc[p] = "idle" /\ pc'[p] = "idle"
                     /\ cache'[p] = Miss
                  \/ /\ cache[p] = Miss /\ InPrimaryBlock(p)
                     /\ pc'[p] = "ret" /\ result'[p] = cache'[p]
                     /\ cache'[p] \notin Exceptions]_vars

\* C17 witness: a process gets its cached identifier again after the
\* primary file was deleted and another process generated and stored a
\* new one
C17_Witness ==
    \E p, q \in Procs :
        /\ pc[p] = "ret" /\ how[p] = "cached"
        /\ result[p] = _generate_id(1) /\ cache[p] = _generate_id(1)
        /\ primary = Record(_generate_id(2))
        /\ cache[q] = _generate_id(2)

\* C18: the step of send_event that hands the payload to the synchronous
\* post or to the thread, and whose POST fails, ends the call with a normal
\* return; it changes no file, directory, lock or cache, generates no
\* identifier and leaves the settings of the logger as they were.
C18_TransportFailureSwallowed ==
    [][(/\ call.stage = "dispatch" /\ call'.stage = "done"
        /\ Strategy(Given(call'.use_thread, "False"),
                    Given(call'.use_daemon, "True")) \in {"sync", "thread"}
        /\ call'.post = "failed")
          => /\ call'.outcome = "returned"
             /\ call'.strategy \in {"sync", "thread"}
             /\ files' = files /\ lock' = lock /\ cache' = cache
             /\ nextUuid' = nextUuid
             /\ call'.enabled = call.enabled /\ call'.proc = call.proc
             /\ pc' = pc]_vars

\* C18 witness: a synchronous call whose post failed has returned, and the
\* store holds the identifier that went into the payload
C18_Witness ==
    /\ call.stage = "done" /\ call.strategy = "sync"
    /\ call.post = "failed" /\ call.posts = 1
    /\ call.outcome = "returned"
    /\ primary = Record(call.body.user_id)

\* C19: a send_event call of a logger whose enabled is False, or a callable
\* that returns False, ends in the step that evaluates is_enabled: that step
\* changes no file, directory, lock or cache and generates nothing, the
\* process never enters _find_or_create_user_id, no strategy gets a
\* payload, and the call returns normally.
C19_DisabledTouchesNothing ==
    [][(call.enabled \in {"False", "callable_false"}
        /\ call.stage = "is_enabled" /\ call' # call)
          => /\ call'.stage = "done" /\ call'.outcome = "returned"
             /\ call'.strategy = "none" /\ call'.post = "none"
             /\ call'.posts = 0 /\ call'.body = NoBody
             /\ call'.user_id = Unbound
             /\ pc'[call.proc] = "send" /\ pc[call.proc] = "send"
             /\ files' = files /\ lock' = lock /\ cache' = cache
             /\ nextUuid' = nextUuid]_vars

\* C19 witness: a call of a logger whose callable returned False is over
\* (nothing in the environment forbade tracking), and the store is still
\* without directory, file and identifier
C19_Witness ==
    /\ call.stage = "done" /\ call.enabled = "callable_false"
    /\ call.env = "unset" /\ call.outcome = "returned"
    /\ call.strategy = "none"
    /\ ~primaryDir /\ primary = Absent /\ nextUuid = 1
    /\ lock["primary"] = NoOne /\ cache[call.proc] = Miss

\* C20: a process outside the with blocks holds no lock, in particular one
\* whose call has ended (by return or by exception); whoever holds the
\* legacy lock inside the library holds the primary lock too, so nobody
\* waits for the primary lock with the legacy lock in hand; and every call
\* ends (SpecFreshFair: a running call goes on), whatever the other
\* processes do and however long the older tool keeps the legacy lock.
C20_TerminatesWithoutLock ==
    /\ [](\A p \in Procs :
            pc[p] \in {"idle", "call", "acq_primary", "ret", "send"}
               => (lock["primary"] # p /\ lock["legacy"] # p))
    /\ [](\A p \in Procs : lock["legacy"] = p => lock["primary"] = p)
    /\ \A p \in Procs : (pc[p] = "call") ~> (pc[p] = "ret")

\* C20 witness: the older tool holds the legacy lock; one call has ended
\* with None after waiting for it, another has ended with an exception
\* after waiting for the primary lock, and the primary lock is free
C20_Witness ==
    \E p, q \in Procs :
        /\ pc[p] = "ret" /\ how[p] = "timeout_legacy"
        /\ pc[q] = "ret" /\ how[q] = "timeout_primary"
        /\ lock["legacy"] = ExtHolder /\ lock["primary"] = NoOne
====
